---- MODULE Spec2Model ----
(***************************************************************************)
(* The code-lifecycle relay of internal/server/server.go: a ServeMux with  *)
(* the routes /code, /message/ and /health, whose handlers run as          *)
(* concurrent request tasks against one storage collaborator.  A handler   *)
(* is split at its storage call, the only point where it touches shared    *)
(* state: Begin (dispatch, body read, validation), Call (one storage       *)
(* call), Respond (status, headers and body from the call's result).       *)
(* The storage package is not part of the sources; its three operations    *)
(* follow the storage contract of the design document.                     *)
(***************************************************************************)
EXTENDS Integers, Sequences, FiniteSets, TLC

\* ---------------------------------------------------------------- bounds
NumProcs == 2         \* concurrent request tasks
NumCodes == 2         \* distinct codes generateCode can draw
MaxBodyLen == 2       \* longest request body, in characters
MaxRequests == 2      \* PUT /message/ requests that reach storage, and GET as many
PlaceholderTTL == 1   \* cfg.PlaceholderTTL, in clock ticks
MessageTTL == 2       \* cfg.MessageTTL, in clock ticks

\* ------------------------------------------------------------- constants
MaxBodyBytes == 0
DefaultMaxBodyBytes == 1048576
IVLen == 12

Procs == 1..NumProcs
CodeNames == <<"AAAAAAAA", "BBBBBBBB", "CCCCCCCC", "DDDDDDDD">>
Codes == {CodeNames[i] : i \in 1..NumCodes}
NoCode == ""
Chars == {" ", "a"}
Methods == {"GET", "PUT", "POST", "OPTIONS"}

RECURSIVE SeqsUpTo(_)
SeqsUpTo(n) ==
    IF n = 0 THEN {<<>>}
    ELSE LET S == SeqsUpTo(n - 1)
         IN  S \cup {Append(s, ch) : s \in {t \in S : Len(t) = n - 1}, ch \in Chars}

Bodies == SeqsUpTo(MaxBodyLen)

\* strings.TrimSpace: drops leading and trailing white space
RECURSIVE TrimLeft(_)
TrimLeft(s) ==
    IF s = <<>> THEN s
    ELSE IF Head(s) = " " THEN TrimLeft(Tail(s)) ELSE s

RECURSIVE TrimRight(_)
TrimRight(s) ==
    IF s = <<>> THEN s
    ELSE IF s[Len(s)] = " " THEN TrimRight(SubSeq(s, 1, Len(s) - 1)) ELSE s

TrimSpace(s) == TrimRight(TrimLeft(s))

\* --------------------------------------------------------------- storage
Absent == [kind |-> "none", payload |-> <<>>, ttl |-> 0]

\* reserve_code: creates a Placeholder iff no record exists for the code
ReserveCode(st, code, ttl) ==
    IF st[code].kind = "none"
    THEN [ok |-> TRUE,
          store |-> [st EXCEPT ![code] = [kind |-> "ph", payload |-> <<>>, ttl |-> ttl]]]
    ELSE [ok |-> FALSE, store |-> st]

\* attach_cipher: Placeholder -> Attached, the TTL reset to the one given
AttachCipher(st, code, ct, ttl) ==
    IF st[code].kind = "ph"
    THEN [ok |-> TRUE,
          store |-> [st EXCEPT ![code] = [kind |-> "att", payload |-> ct, ttl |-> ttl]]]
    ELSE [ok |-> FALSE, store |-> st]

\* get_and_delete: reads and removes the Attached record in one step
GetAndDelete(st, code) ==
    IF st[code].kind = "att"
    THEN [ct |-> st[code].payload, ok |-> TRUE, store |-> [st EXCEPT ![code] = Absent]]
    ELSE [ct |-> <<>>, ok |-> FALSE, store |-> st]

\* passive expiry: one clock tick ages every record, a record whose TTL has
\* elapsed is gone
Expire(st) ==
    [c \in Codes |->
        IF st[c].kind = "none" THEN Absent
        ELSE IF st[c].ttl <= 1 THEN Absent
        ELSE [st[c] EXCEPT !.ttl = @ - 1]]

\* -------------------------------------------------------------- requests
NoReq == [method |-> "", route |-> "", code |-> NoCode, body |-> <<>>]

\* the requests the mux routes to a handler; only a PUT carries a body
Requests ==
    [method : Methods, route : {"/code", "/health"}, code : {NoCode}, body : {<<>>}]
    \cup [method : {"PUT"}, route : {"/message/"}, code : Codes, body : Bodies]
    \cup [method : Methods \ {"PUT"}, route : {"/message/"}, code : Codes, body : {<<>>}]

NoResp == [status |-> 0, headers |-> {}, body |-> <<>>]

StatusOK == 200
StatusCreated == 201
StatusNoContent == 204
StatusBadRequest == 400
StatusNotFound == 404
StatusMethodNotAllowed == 405
StatusConflict == 409
StatusTooManyRequests == 429
StatusInternalServerError == 500

secHeaders ==
    { <<"Referrer-Policy", "no-referrer">>,
      <<"Cache-Control", "no-store">>,
      <<"X-Content-Type-Options", "nosniff">>,
      <<"Pragma", "no-cache">> }

Header(resp, name) == {h[2] : h \in {x \in resp.headers : x[1] = name}}

\* json.NewEncoder(w).Encode(map[string]string{"code": code})
EncodeCode(code) == <<"{\"code\":\"", code, "\"}", "\n">>

\* what a handler has reached before any storage call: a finished response,
\* or the storage call it is about to make
Done(resp) == [next |-> "done", resp |-> resp, handler |-> "", ct |-> <<>>]
Proceed(handler, ct) == [next |-> "call", resp |-> NoResp, handler |-> handler, ct |-> ct]

\* mutant: the probe reports the storage collaborator's failure
health_StorageCheck(r) ==
    Done([status |-> StatusInternalServerError, headers |-> secHeaders, body |-> <<>>])

health(r) == Done([status |-> StatusOK, headers |-> secHeaders, body |-> <<>>])

getCodeEntry(r) ==
    IF r.method # "GET"
    THEN Done([status |-> StatusMethodNotAllowed, headers |-> {}, body |-> <<>>])
    ELSE Proceed("getCode", <<>>)

\* mutant: the loop is left after the first turn, collision or not
getCodeBreak_Always(ok) == TRUE

\* the loop of getCode is left when ReserveCode answered ok
getCodeBreak(ok) == ok

\* mutant: the error branch is missing, the candidate is sent after a failed call
getCodeResponse_NoErrorBranch(code, err) ==
    [status |-> StatusOK,
     headers |-> secHeaders \cup {<<"Content-Type", "application/json">>},
     body |-> EncodeCode(code)]

getCodeResponse(code, err) ==
    IF err
    THEN [status |-> StatusInternalServerError, headers |-> secHeaders, body |-> <<>>]
    ELSE [status |-> StatusOK,
          headers |-> secHeaders \cup {<<"Content-Type", "application/json">>},
          body |-> EncodeCode(code)]

\* the body cap: cfg.MaxBodyBytes, 1 MiB when it is not positive
maxBody == IF MaxBodyBytes <= 0 THEN DefaultMaxBodyBytes ELSE MaxBodyBytes

\* mutant: the body is taken as it was read, untrimmed
putMessageCipher_Untrimmed(body) == body

\* the ciphertext putMessage stores: the body with its white space trimmed
putMessageCipher(body) == TrimSpace(body)

putMessageEntry(r) ==
    IF Len(r.body) > maxBody
    THEN Done([status |-> StatusBadRequest, headers |-> secHeaders, body |-> <<>>])
    ELSE IF putMessageCipher(r.body) = <<>>
    THEN Done([status |-> StatusBadRequest, headers |-> secHeaders, body |-> <<>>])
    ELSE Proceed("putMessage", putMessageCipher(r.body))

\* mutant: the placeholder TTL is handed to AttachCipher
attachTTL_Placeholder == PlaceholderTTL

\* the TTL putMessage hands to AttachCipher
attachTTL == MessageTTL

\* mutant: the message TTL is handed to ReserveCode
reserveTTL_Message == MessageTTL

\* the TTL getCode hands to ReserveCode
reserveTTL == PlaceholderTTL

\* mutant: ok is looked at before err, a failed call with ok=false answers 409
putMessageResponse_ErrLast(ok, err) ==
    IF ~ok
    THEN [status |-> StatusConflict, headers |-> secHeaders, body |-> <<>>]
    ELSE IF err
    THEN [status |-> StatusInternalServerError, headers |-> secHeaders, body |-> <<>>]
    ELSE [status |-> StatusNoContent, headers |-> secHeaders, body |-> <<>>]

\* mutant: the conflict branch is missing, a refused attachment answers 204
putMessageResponse_NoConflict(ok, err) ==
    IF err
    THEN [status |-> StatusInternalServerError, headers |-> secHeaders, body |-> <<>>]
    ELSE [status |-> StatusNoContent, headers |-> secHeaders, body |-> <<>>]

putMessageResponse(ok, err) ==
    IF err
    THEN [status |-> StatusInternalServerError, headers |-> secHeaders, body |-> <<>>]
    ELSE IF ~ok
    THEN [status |-> StatusConflict, headers |-> secHeaders, body |-> <<>>]
    ELSE [status |-> StatusNoContent, headers |-> secHeaders, body |-> <<>>]

\* mutant: the found flag is read the wrong way round
getMessageResponse_OkInverted(ct, ok, err) ==
    IF err
    THEN [status |-> StatusInternalServerError, headers |-> secHeaders, body |-> <<>>]
    ELSE IF ok
    THEN [status |-> StatusNotFound, headers |-> secHeaders, body |-> <<>>]
    ELSE [status |-> StatusOK,
          headers |-> secHeaders \cup {<<"Content-Type", "text/plain">>},
          body |-> ct]

\* mutant: the not-found branch is missing, the body is written whatever ok is
getMessageResponse_NoNotFound(ct, ok, err) ==
    IF err
    THEN [status |-> StatusInternalServerError, headers |-> secHeaders, body |-> <<>>]
    ELSE [status |-> StatusOK,
          headers |-> secHeaders \cup {<<"Content-Type", "text/plain">>},
          body |-> ct]

getMessageResponse(ct, ok, err) ==
    IF err
    THEN [status |-> StatusInternalServerError, headers |-> secHeaders, body |-> <<>>]
    ELSE IF ~ok
    THEN [status |-> StatusNotFound, headers |-> secHeaders, body |-> <<>>]
    ELSE [status |-> StatusOK,
          headers |-> secHeaders \cup {<<"Content-Type", "text/plain">>},
          body |-> ct]

message(r) ==
    IF r.method = "PUT" THEN putMessageEntry(r)
    ELSE IF r.method = "GET" THEN Proceed("getMessage", <<>>)
    ELSE Done([status |-> StatusMethodNotAllowed, headers |-> {}, body |-> <<>>])

\* the characters validBase64 lets through: A-Z, a-z, 0-9, +, / and =
Base64Chars ==
    { "A", "B", "C", "D", "E", "F", "G", "H", "I", "J", "K", "L", "M",
      "N", "O", "P", "Q", "R", "S", "T", "U", "V", "W", "X", "Y", "Z",
      "a", "b", "c", "d", "e", "f", "g", "h", "i", "j", "k", "l", "m",
      "n", "o", "p", "q", "r", "s", "t", "u", "v", "w", "x", "y", "z",
      "0", "1", "2", "3", "4", "5", "6", "7", "8", "9", "+", "/", "=" }

\* validBase64: non-empty and made of base64 characters only (no caller)
validBase64(s) == Len(s) > 0 /\ \A i \in 1..Len(s) : s[i] \in Base64Chars

\* the mux of New: /code, /message/ and /health
router(r) ==
    IF r.route = "/code" THEN getCodeEntry(r)
    ELSE IF r.route = "/message/" THEN message(r)
    ELSE health(r)

\* ----------------------------------------------------------------- state
VARIABLES
    store,    \* the storage collaborator: code -> record
    pc,       \* per request task: "idle", "call" (in getCode's loop), "respond"
    req,      \* per request task: the request it serves
    loc,      \* per request task: the handler's locals (code, ct, ok, err)
    put204,   \* per code: PUT /message/code responses with status 204 so far
    get200    \* per code: GET /message/code responses with status 200 so far

vars == <<store, pc, req, loc, put204, get200>>

NoLoc == [handler |-> "", code |-> NoCode, ct |-> <<>>, ok |-> FALSE, err |-> FALSE]

Init ==
    /\ store = [c \in Codes |-> Absent]
    /\ pc = [p \in Procs |-> "idle"]
    /\ req = [p \in Procs |-> NoReq]
    /\ loc = [p \in Procs |-> NoLoc]
    /\ put204 = [c \in Codes |-> 0]
    /\ get200 = [c \in Codes |-> 0]

\* the requests of a method on /message/ that have made their storage call
InFlight(method) ==
    {p \in Procs : pc[p] = "respond" /\ req[p].route = "/message/" /\ req[p].method = method}

RECURSIVE Sum(_, _)
Sum(f, S) == IF S = {} THEN 0 ELSE LET c == CHOOSE x \in S : TRUE IN f[c] + Sum(f, S \ {c})

\* the environment issues a bounded number of storage-reaching PUT requests,
\* and as many GET requests
Admissible(r) ==
    r.route = "/message/" =>
        /\ r.method = "PUT" => Sum(put204, Codes) + Cardinality(InFlight("PUT")) < MaxRequests
        /\ r.method = "GET" => Sum(get200, Codes) + Cardinality(InFlight("GET")) < MaxRequests

\* a request arrives at an idle task and is routed to its handler
Accept(p, r, handler) ==
    /\ pc[p] = "idle"
    /\ router(r).next = "call"
    /\ router(r).handler = handler
    /\ Admissible(r)
    /\ req' = [req EXCEPT ![p] = r]

\* a request whose handler answers without any storage call
Serve(p, r) ==
    /\ pc[p] = "idle"
    /\ router(r).next = "done"
    /\ pc' = [pc EXCEPT ![p] = "respond"]
    /\ req' = [req EXCEPT ![p] = r]
    /\ UNCHANGED <<store, loc, put204, get200>>

\* one turn of getCode's loop: generateCode, then ReserveCode
GetCodeTurn(p, code, fail) ==
    /\ LET r == ReserveCode(store, code, reserveTTL)
       IN  IF fail
           THEN /\ loc' = [loc EXCEPT ![p] = [NoLoc EXCEPT !.handler = "getCode",
                                                          !.code = code, !.err = TRUE]]
                /\ pc' = [pc EXCEPT ![p] = "respond"]
                /\ store' = store
           ELSE /\ loc' = [loc EXCEPT ![p] = [NoLoc EXCEPT !.handler = "getCode",
                                                          !.code = code, !.ok = r.ok]]
                /\ pc' = [pc EXCEPT ![p] = IF getCodeBreak(r.ok) THEN "respond" ELSE "call"]
                /\ store' = r.store
    /\ UNCHANGED <<put204, get200>>

\* GET /code: the first turn of the loop
GetCodeCall(p, r, code, fail) ==
    /\ Accept(p, r, "getCode")
    /\ GetCodeTurn(p, code, fail)

\* GET /code after a collision: another turn with a fresh candidate
GetCodeRetry(p, code, fail) ==
    /\ pc[p] = "call"
    /\ GetCodeTurn(p, code, fail)
    /\ UNCHANGED req

\* PUT /message/code: the body read and trimmed, then AttachCipher
PutMessageCall(p, r, fail) ==
    /\ Accept(p, r, "putMessage")
    /\ LET ct == router(r).ct
           a == AttachCipher(store, r.code, ct, attachTTL)
       IN  IF fail
           THEN /\ loc' = [loc EXCEPT ![p] = [NoLoc EXCEPT !.handler = "putMessage",
                                                          !.ct = ct, !.err = TRUE]]
                /\ store' = store
           ELSE /\ loc' = [loc EXCEPT ![p] = [NoLoc EXCEPT !.handler = "putMessage",
                                                          !.ct = ct, !.ok = a.ok]]
                /\ store' = a.store
    /\ pc' = [pc EXCEPT ![p] = "respond"]
    /\ UNCHANGED <<put204, get200>>

\* GET /message/code: GetAndDelete
GetMessageCall(p, r, fail) ==
    /\ Accept(p, r, "getMessage")
    /\ LET g == GetAndDelete(store, r.code)
       IN  IF fail
           THEN /\ loc' = [loc EXCEPT ![p] = [NoLoc EXCEPT !.handler = "getMessage",
                                                          !.err = TRUE]]
                /\ store' = store
           ELSE /\ loc' = [loc EXCEPT ![p] = [NoLoc EXCEPT !.handler = "getMessage",
                                                          !.ct = g.ct, !.ok = g.ok]]
                /\ store' = g.store
    /\ pc' = [pc EXCEPT ![p] = "respond"]
    /\ UNCHANGED <<put204, get200>>

\* the response a task is about to write
Response(p) ==
    IF loc[p].handler = "getCode" THEN getCodeResponse(loc[p].code, loc[p].err)
    ELSE IF loc[p].handler = "putMessage" THEN putMessageResponse(loc[p].ok, loc[p].err)
    ELSE IF loc[p].handler = "getMessage"
    THEN getMessageResponse(loc[p].ct, loc[p].ok, loc[p].err)
    ELSE router(req[p]).resp

\* the response leaves the server and the task is free again
Respond(p) ==
    /\ pc[p] = "respond"
    /\ put204' = IF req[p].route = "/message/" /\ req[p].method = "PUT"
                    /\ Response(p).status = StatusNoContent
                 THEN [put204 EXCEPT ![req[p].code] = @ + 1] ELSE put204
    /\ get200' = IF req[p].route = "/message/" /\ req[p].method = "GET"
                    /\ Response(p).status = StatusOK
                 THEN [get200 EXCEPT ![req[p].code] = @ + 1] ELSE get200
    /\ pc' = [pc EXCEPT ![p] = "idle"]
    /\ req' = [req EXCEPT ![p] = NoReq]
    /\ loc' = [loc EXCEPT ![p] = NoLoc]
    /\ UNCHANGED store

\* the clock advances by one tick; the store drops what has expired
Tick ==
    /\ \E c \in Codes : store[c].kind # "none"
    /\ store' = Expire(store)
    /\ UNCHANGED <<pc, req, loc, put204, get200>>

Next ==
    \/ \E p \in Procs, r \in Requests : Serve(p, r)
    \/ \E p \in Procs, r \in Requests, code \in Codes, fail \in BOOLEAN :
          GetCodeCall(p, r, code, fail)
    \/ \E p \in Procs, code \in Codes, fail \in BOOLEAN : GetCodeRetry(p, code, fail)
    \/ \E p \in Procs, r \in Requests, fail \in BOOLEAN : PutMessageCall(p, r, fail)
    \/ \E p \in Procs, r \in Requests, fail \in BOOLEAN : GetMessageCall(p, r, fail)
    \/ \E p \in Procs : Respond(p)
    \/ Tick

Spec == Init /\ [][Next]_vars

\* ---------------------------------------------------------------- claims
IsPut(r) == r.route = "/message/" /\ r.method = "PUT"
IsGet(r) == r.route = "/message/" /\ r.method = "GET"

\* task p makes the storage call of handler h in this step
Calls(p, h) == pc[p] # "respond" /\ pc'[p] = "respond" /\ loc'[p].handler = h

\* the tasks about to answer a request of the given shape on code c with a status
Answering(method, c, status) ==
    {p \in Procs : pc[p] = "respond" /\ req[p].route = "/message/" /\ req[p].method = method
                   /\ req[p].code = c /\ Response(p).status = status}

\* payload deliveries (GET 200) and acknowledged attachments (PUT 204) of a
\* code: those already answered and those about to be
Delivered(c) == get200[c] + Cardinality(Answering("GET", c, StatusOK))
Attached(c) == put204[c] + Cardinality(Answering("PUT", c, StatusNoContent))

\* C1: whatever the interleaving of GET /message/c requests, every attached
\* record is delivered at most once: the deliveries of a code, plus the record
\* still waiting, never exceed its acknowledged attachments; a GET that was not
\* handed the payload (and met no storage error) answers 404 with no body
C1_AtMostOneDelivery ==
    /\ \A c \in Codes :
          Delivered(c) + (IF store[c].kind = "att" THEN 1 ELSE 0) <= Attached(c)
    /\ \A p \in Procs :
          (pc[p] = "respond" /\ IsGet(req[p]) /\ ~loc[p].ok /\ ~loc[p].err)
              => Response(p).status = StatusNotFound /\ Response(p).body = <<>>

\* two GETs of one code are in flight at once: one has the payload, one has 404
C1_Witness ==
    \E p, q \in Procs, c \in Codes :
        /\ p \in Answering("GET", c, StatusOK)
        /\ q \in Answering("GET", c, StatusNotFound)
        /\ Response(p).body # <<>>
        /\ store[c].kind = "none"

\* C2 as stated: once a GET /message/c has returned 200, every later GET
\* /message/c that meets no storage error returns 404
C2_Original ==
    [][\A p \in Procs :
          (Calls(p, "getMessage") /\ get200[req'[p].code] >= 1 /\ ~loc'[p].err)
              => Response(p)'.status = StatusNotFound]_vars

\* C2 amended: a GET /message/c returns 200 only by removing the attached
\* record, and returns 404 whenever no attached record exists; after a
\* delivery the code has no attached record until it is reserved again (by a
\* code request) and a new payload is attached (by a PUT answered 204)
C2_NonIdempotent ==
    [][/\ \A p \in Procs :
             (Calls(p, "getMessage") /\ ~loc'[p].err) =>
                LET c == req'[p].code
                IN  /\ Response(p)'.status = StatusOK =>
                          /\ store[c].kind = "att"
                          /\ store'[c] = Absent
                          /\ Response(p)'.body = store[c].payload
                    /\ store[c].kind # "att" => Response(p)'.status = StatusNotFound
       /\ \A c \in Codes :
             /\ (store[c].kind = "none" /\ store'[c].kind # "none") =>
                   /\ store'[c].kind = "ph"
                   /\ \E p \in Procs : /\ Calls(p, "getCode")
                                       /\ loc'[p].code = c
                                       /\ Response(p)'.status = StatusOK
             /\ (store[c].kind # "att" /\ store'[c].kind = "att") =>
                   /\ store[c].kind = "ph"
                   /\ \E p \in Procs : /\ Calls(p, "putMessage")
                                       /\ req'[p].code = c
                                       /\ Response(p)'.status = StatusNoContent
      ]_vars

\* a code was delivered once and a later GET of it is about to answer 404
C2_Witness ==
    \E p \in Procs, c \in Codes :
        /\ get200[c] >= 1
        /\ p \in Answering("GET", c, StatusNotFound)

\* C3: a code request answers 200 with code c only when its own ReserveCode
\* call found no record of c and created the Placeholder of c (with the
\* placeholder TTL): a code that has a live record is never issued, and the
\* response carries exactly the code that was reserved
C3_UniqueWhileLive ==
    [][\A p \in Procs :
          (Calls(p, "getCode") /\ Response(p)'.status = StatusOK) =>
              LET c == loc'[p].code
              IN  /\ store[c].kind = "none"
                  /\ store'[c] = [kind |-> "ph", payload |-> <<>>, ttl |-> PlaceholderTTL]
                  /\ \A d \in Codes \ {c} : store'[d] = store[d]
                  /\ Response(p)'.body = EncodeCode(c)
      ]_vars

\* one code request is about to hand out c, whose record is live, while another
\* has just collided on c and is going round the loop again
C3_Witness ==
    \E p, q \in Procs, c \in Codes :
        /\ pc[p] = "respond" /\ loc[p].handler = "getCode"
        /\ Response(p).status = StatusOK /\ loc[p].code = c
        /\ store[c].kind # "none"
        /\ pc[q] = "call" /\ loc[q].code = c /\ ~loc[q].ok

\* C4: a PUT /message/c that meets an Attached record answers 409 and leaves
\* the store (payload and TTL) as it was; a PUT that meets a Placeholder answers
\* 204 and the record becomes Attached with that request's own ciphertext,
\* whole, so of two PUTs racing on one Placeholder the first served wins and
\* the second meets the Attached record
C4_AttachOnce ==
    [][\A p \in Procs :
          (Calls(p, "putMessage") /\ ~loc'[p].err) =>
              LET c == req'[p].code
              IN  /\ store[c].kind = "att" =>
                        Response(p)'.status = StatusConflict /\ store' = store
                  /\ store[c].kind = "ph" =>
                        /\ Response(p)'.status = StatusNoContent
                        /\ store'[c].kind = "att"
                        /\ store'[c].payload = loc'[p].ct
                        /\ \A d \in Codes \ {c} : store'[d] = store[d]
      ]_vars

\* two PUTs of different ciphertexts on one code are in flight: one has 204,
\* the other 409, and the stored payload is the winner's
C4_Witness ==
    \E p, q \in Procs, c \in Codes :
        /\ p \in Answering("PUT", c, StatusNoContent)
        /\ q \in Answering("PUT", c, StatusConflict)
        /\ loc[p].ct # loc[q].ct
        /\ store[c].kind = "att" /\ store[c].payload = loc[p].ct

C6_PostCode201 ==
    \A p \in Procs :
        (pc[p] = "respond" /\ req[p].route = "/code" /\ req[p].method = "POST") =>
            /\ Response(p).status = StatusCreated
            /\ Header(Response(p), "Location") # {}
            /\ \E c \in Codes : Response(p).body = EncodeCode(c)

\* a body of white space only (the empty body included)
Blank(body) == \A i \in 1..Len(body) : body[i] = " "

\* C7: a PUT /message/c with an empty or white-space-only body answers 400
\* whatever record c has, makes no storage call and leaves the store unchanged
C7_BlankBody400 ==
    [][\A p \in Procs :
          (pc[p] = "idle" /\ pc'[p] # "idle" /\ IsPut(req'[p]) /\ Blank(req'[p].body)) =>
              /\ pc'[p] = "respond"
              /\ Response(p)'.status = StatusBadRequest
              /\ loc'[p] = NoLoc
              /\ store' = store
      ]_vars

\* a PUT with a body of one space on a code whose record is Attached is about
\* to answer 400, the record still there
C7_Witness ==
    \E p \in Procs, c \in Codes :
        /\ p \in Answering("PUT", c, StatusBadRequest)
        /\ req[p].body = <<" ">>
        /\ store[c].kind = "att"

\* C8 as stated, for a burst of 1 with no refill: only one request other than
\* /health ever takes the token, so of two such requests served at the same
\* time one is answered 429, and so is every one served after a PUT was
\* answered 204 or a GET 200
C8_SecondRejected ==
    /\ \A p, q \in Procs :
          (p # q /\ pc[p] = "respond" /\ pc[q] = "respond"
                /\ req[p].route # "/health" /\ req[q].route # "/health") =>
              \/ Response(p).status = StatusTooManyRequests
              \/ Response(q).status = StatusTooManyRequests
    /\ \A p \in Procs :
          (pc[p] = "respond" /\ req[p].route # "/health"
                /\ Sum(put204, Codes) + Sum(get200, Codes) >= 1) =>
              Response(p).status = StatusTooManyRequests

\* this step is a tick of the clock
IsTick == store' = Expire(store) /\ UNCHANGED <<pc, req, loc, put204, get200>>

C10_NoRecordOutlivesTTL ==
    [][/\ \A c \in Codes :
             /\ store'[c].kind = "ph" => store'[c].ttl \in 1..PlaceholderTTL
             /\ store'[c].kind = "att" => store'[c].ttl \in 1..MessageTTL
             /\ (IsTick /\ store[c].kind # "none") =>
                    IF store[c].ttl = 1 THEN store'[c] = Absent
                    ELSE store'[c] = [store[c] EXCEPT !.ttl = @ - 1]
       /\ \A p \in Procs :
             /\ (Calls(p, "getMessage") /\ ~loc'[p].err /\ store[req'[p].code].kind = "none") =>
                    Response(p)'.status = StatusNotFound /\ Response(p)'.body = <<>>
             /\ (Calls(p, "putMessage") /\ ~loc'[p].err /\ store[req'[p].code].kind = "none") =>
                    Response(p)'.status = StatusConflict
      ]_vars

\* an attached record of c has expired undelivered, and a GET of c is about to
\* answer 404
C10_Witness ==
    \E p \in Procs, c \in Codes :
        /\ put204[c] >= 1
        /\ Delivered(c) = 0
        /\ store[c].kind = "none"
        /\ p \in Answering("GET", c, StatusNotFound)

\* C11: only getCode ever repeats a storage call; a PUT or GET on /message/c
\* is answered from the result of its single call alone: AttachCipher error ->
\* 500 (whatever the boolean), no error and false -> 409, true -> 204;
\* GetAndDelete error -> 500, not found -> 404, found -> 200 with the payload;
\* a ReserveCode error -> 500 with no code in the body
C11_ResultFixesStatus ==
    /\ \A ok, err \in BOOLEAN :
          putMessageResponse(ok, err).status =
              IF err THEN StatusInternalServerError
              ELSE IF ok THEN StatusNoContent ELSE StatusConflict
    /\ \A p \in Procs :
          /\ pc[p] = "call" => req[p].route = "/code" /\ loc[p].handler = "getCode"
          /\ (pc[p] = "respond" /\ loc[p].handler = "putMessage") =>
                /\ IsPut(req[p])
                /\ Response(p).status =
                      IF loc[p].err THEN StatusInternalServerError
                      ELSE IF loc[p].ok THEN StatusNoContent ELSE StatusConflict
                /\ Response(p).body = <<>>
          /\ (pc[p] = "respond" /\ loc[p].handler = "getMessage") =>
                /\ IsGet(req[p])
                /\ Response(p).status =
                      IF loc[p].err THEN StatusInternalServerError
                      ELSE IF loc[p].ok THEN StatusOK ELSE StatusNotFound
                /\ Response(p).body = IF loc[p].ok /\ ~loc[p].err THEN loc[p].ct ELSE <<>>
          /\ (pc[p] = "respond" /\ loc[p].handler = "getCode" /\ loc[p].err) =>
                Response(p).status = StatusInternalServerError /\ Response(p).body = <<>>

\* a PUT and a GET of one code, whose record is Attached, both met a storage
\* error and are about to answer 500
C11_Witness ==
    \E p, q \in Procs, c \in Codes :
        /\ p \in Answering("PUT", c, StatusInternalServerError) /\ loc[p].err
        /\ q \in Answering("GET", c, StatusInternalServerError) /\ loc[q].err
        /\ store[c].kind = "att"

\* C12 as stated: every response, the 405, 404, 400, 409 and 500 ones
\* included, carries Cache-Control: no-store, Referrer-Policy: no-referrer and
\* X-Content-Type-Options: nosniff
C12_DefensiveHeaders ==
    \A p \in Procs :
        pc[p] = "respond" =>
            /\ Header(Response(p), "Cache-Control") = {"no-store"}
            /\ Header(Response(p), "Referrer-Policy") = {"no-referrer"}
            /\ Header(Response(p), "X-Content-Type-Options") = {"nosniff"}

\* C13: a request on /health, whatever its method and whatever the store holds
\* or answers to others, is answered 200 without any storage call: the store,
\* the handler's locals and the counts of deliveries stay as they were
C13_HealthIsLivenessOnly ==
    [][\A p \in Procs :
          (pc[p] = "idle" /\ pc'[p] # "idle" /\ req'[p].route = "/health") =>
              /\ pc'[p] = "respond"
              /\ Response(p)'.status = StatusOK
              /\ loc'[p] = NoLoc
              /\ store' = store
              /\ UNCHANGED <<put204, get200>>
      ]_vars

\* a GET /health is about to answer 200 while a record is Attached and the
\* storage call of another request has just failed
C13_Witness ==
    \E p, q \in Procs, c \in Codes :
        /\ pc[p] = "respond" /\ req[p].route = "/health" /\ req[p].method = "GET"
        /\ Response(p).status = StatusOK
        /\ pc[q] = "respond" /\ loc[q].err
        /\ store[c].kind = "att"

\* standard base64 text: base64 characters only, in groups of four
WellFormedBase64(s) == validBase64(s) /\ Len(s) % 4 = 0

\* the bytes a well-formed base64 text decodes to
DecodedLen(s) == 3 * (Len(s) \div 4) - Cardinality({i \in 1..Len(s) : s[i] = "="})

\* C14 as stated: a PUT /message/c whose body is not well-formed base64, or
\* decodes to fewer bytes than the 12-byte initialization vector, is answered
\* 400 and AttachCipher is not called
C14_Base64Checked ==
    \A p \in Procs :
        (pc[p] = "respond" /\ IsPut(req[p])
              /\ (\/ ~WellFormedBase64(TrimSpace(req[p].body))
                  \/ DecodedLen(TrimSpace(req[p].body)) < IVLen)) =>
            /\ Response(p).status = StatusBadRequest
            /\ loc[p] = NoLoc

\* C15 as stated: an OPTIONS request on any path is answered 204 with an
\* Access-Control-Allow-Origin header and without a storage call; any other
\* method a path does not serve is answered 405 without a storage call
C15_Preflight ==
    \A p \in Procs :
        pc[p] = "respond" =>
            /\ req[p].method = "OPTIONS" =>
                  /\ Response(p).status = StatusNoContent
                  /\ Header(Response(p), "Access-Control-Allow-Origin") # {}
                  /\ loc[p] = NoLoc
            /\ (\/ req[p].route = "/code" /\ req[p].method = "PUT"
                \/ req[p].route = "/message/" /\ req[p].method = "POST") =>
                  /\ Response(p).status = StatusMethodNotAllowed
                  /\ loc[p] = NoLoc

\* every request task keeps running: the turn of the loop, the response and
\* the clock are never held back for ever
FairSpec ==
    /\ Spec
    /\ \A p \in Procs :
          /\ WF_vars(\E code \in Codes, fail \in BOOLEAN : GetCodeRetry(p, code, fail))
          /\ WF_vars(Respond(p))
    /\ WF_vars(Tick)

\* C16 as stated: a code request makes a bounded number of ReserveCode attempts
\* and then answers, so a request that is in the loop always gets to its
\* response, whatever the store answers
C16_ReserveTerminates ==
    \A p \in Procs : (pc[p] = "call") ~> (pc[p] = "respond")

\* the one PUT of code c answered 204, still in flight, and a GET of c that
\* was handed the payload it attached
RoundTrip(p, q, c) ==
    /\ put204[c] = 0 /\ get200[c] = 0
    /\ Answering("PUT", c, StatusNoContent) = {p}
    /\ q \in Answering("GET", c, StatusOK)

\* C17 as stated: the body of the GET 200 is the body B of the PUT 204, byte for
\* byte, white space at its ends included
C17_Original ==
    \A p, q \in Procs, c \in Codes :
        RoundTrip(p, q, c) => Response(q).body = req[p].body

\* the body has no white space at either end
NoOuterSpace(body) == body # <<>> /\ body[1] # " " /\ body[Len(body)] # " "

\* C17 amended: the body of the GET 200 is B with the white space at its two
\* ends removed, so it is never empty and has no white space at either end, it
\* is a part of B, and it is B itself, byte for byte, when B has none
C17_RoundTripTrimmed ==
    \A p, q \in Procs, c \in Codes :
        RoundTrip(p, q, c) =>
            LET B == req[p].body
                D == Response(q).body
            IN  /\ NoOuterSpace(D)
                /\ \E i \in 1..Len(B), j \in 1..Len(B) :
                      /\ D = SubSeq(B, i, j)
                      /\ \A k \in 1..Len(B) : (k < i \/ k > j) => B[k] = " "
                /\ NoOuterSpace(B) => D = B

\* a body with a leading space went round: the GET hands back less than was put
C17_Witness ==
    \E p, q \in Procs, c \in Codes :
        /\ RoundTrip(p, q, c)
        /\ req[p].body = <<" ", "a">>
        /\ Response(q).body = <<"a">>

\* C18: a GET /message/c that meets a Placeholder (and no storage error)
\* answers 404 and leaves the store as it was: the Placeholder keeps its TTL, a
\* PUT /message/c with any valid body would still be answered 204, and a code
\* request drawing c would still collide
C18_GetOnPlaceholder ==
    [][\A p \in Procs :
          (Calls(p, "getMessage") /\ ~loc'[p].err /\ store[req'[p].code].kind = "ph") =>
              LET c == req'[p].code
              IN  /\ Response(p)'.status = StatusNotFound
                  /\ Response(p)'.body = <<>>
                  /\ store' = store
                  /\ \A b \in Bodies :
                        router([method |-> "PUT", route |-> "/message/",
                                code |-> c, body |-> b]).next = "call" =>
                            LET a == AttachCipher(store', c, putMessageCipher(b), attachTTL)
                            IN  putMessageResponse(a.ok, FALSE).status = StatusNoContent
                  /\ ~getCodeBreak(ReserveCode(store', c, reserveTTL).ok)
      ]_vars

\* a GET of c is about to answer 404 and c is still a Placeholder with its full
\* TTL, while no code request is in flight
C18_Witness ==
    \E p \in Procs, c \in Codes :
        /\ p \in Answering("GET", c, StatusNotFound)
        /\ store[c] = [kind |-> "ph", payload |-> <<>>, ttl |-> PlaceholderTTL]
        /\ \A q \in Procs : ~(pc[q] # "idle" /\ loc[q].handler = "getCode")

\* C19: each turn of getCode's loop makes one ReserveCode call on the
\* candidate it has just drawn; a turn that collides changes no record and is
\* followed by another turn, never by a response; the turn that succeeds
\* creates the Placeholder of its candidate and nothing else, and the response
\* carries that candidate; a turn that fails leaves the store alone and is
\* answered 500 without a code; once a request is at its response it makes no
\* further call
C19_ReservedCodeReturned ==
    [][\A p \in Procs :
          /\ (pc'[p] # "idle" /\ loc'[p].handler = "getCode" /\ loc'[p] # loc[p]) =>
                LET c == loc'[p].code
                IN  /\ c \in Codes
                    /\ (~loc'[p].err /\ ~loc'[p].ok) =>
                          /\ pc'[p] = "call"
                          /\ store[c].kind # "none"
                          /\ store' = store
                    /\ (~loc'[p].err /\ loc'[p].ok) =>
                          /\ pc'[p] = "respond"
                          /\ store[c].kind = "none"
                          /\ store'[c].kind = "ph"
                          /\ \A d \in Codes \ {c} : store'[d] = store[d]
                          /\ Response(p)'.status = StatusOK
                          /\ Response(p)'.body = EncodeCode(c)
                    /\ loc'[p].err =>
                          /\ pc'[p] = "respond"
                          /\ store' = store
                          /\ Response(p)'.status = StatusInternalServerError
                          /\ Response(p)'.body = <<>>
          /\ (pc[p] = "respond" /\ loc[p].handler = "getCode") =>
                \/ pc'[p] = "respond" /\ loc'[p] = loc[p] /\ req'[p] = req[p]
                \/ pc'[p] = "idle" /\ store' = store
      ]_vars

\* a code request has collided on one code and goes round again while the other
\* code is free, and another code request met a storage error and is about to
\* answer 500 without a code
C19_Witness ==
    \E p, q \in Procs, c, d \in Codes :
        /\ c # d
        /\ pc[p] = "call" /\ loc[p].code = c /\ ~loc[p].ok
        /\ store[c].kind # "none" /\ store[d].kind = "none"
        /\ pc[q] = "respond" /\ loc[q].handler = "getCode" /\ loc[q].err
        /\ Response(q).body = <<>>

\* C20, as stated: for every code the GET responses with status 200 never
\* outnumber the PUT responses with status 204
C20_Original == \A c \in Codes : get200[c] <= put204[c]

\* the four ways a record changes
Reserved(p, c) ==
    /\ pc'[p] = "respond" /\ loc'[p].handler = "getCode" /\ loc'[p] # loc[p]
    /\ loc'[p].code = c /\ loc'[p].ok /\ ~loc'[p].err
    /\ store[c].kind = "none"
    /\ store'[c] = [kind |-> "ph", payload |-> <<>>, ttl |-> reserveTTL]

AttachedBy(p, c) ==
    /\ Calls(p, "putMessage") /\ req'[p].code = c
    /\ Response(p)'.status = StatusNoContent
    /\ store[c].kind = "ph"
    /\ store'[c] = [kind |-> "att", payload |-> putMessageCipher(req'[p].body), ttl |-> attachTTL]

RetrievedBy(p, c) ==
    /\ Calls(p, "getMessage") /\ req'[p].code = c
    /\ Response(p)'.status = StatusOK
    /\ store[c].kind = "att"
    /\ Response(p)'.body = store[c].payload
    /\ store'[c] = Absent

Expiring(c) ==
    /\ IsTick
    /\ store[c].kind # "none"
    /\ store'[c] = Expire(store)[c]

\* C20: no delivery without attachment. For every code the GET responses with
\* status 200 never outnumber the PUT requests whose attachment succeeded (those
\* answered 204 and those about to be); a GET is answered 200 only by the step
\* that removes an Attached record, with that record's payload as its body; the
\* payload of a record is written only by the attachment of its own lifecycle;
\* and a record changes only by reservation, one attachment, retrieval or expiry
C20_NoDeliveryWithoutAttachment ==
    [][/\ \A c \in Codes : get200'[c] <= Attached(c)'
       /\ \A p \in Procs :
             (Calls(p, "getMessage") /\ Response(p)'.status = StatusOK) =>
                 RetrievedBy(p, req'[p].code)
       /\ \A p \in Procs :
             (Calls(p, "putMessage") /\ Response(p)'.status = StatusNoContent) =>
                 AttachedBy(p, req'[p].code)
       /\ \A c \in Codes :
             store'[c] # store[c] =>
                 \/ \E p \in Procs : Reserved(p, c) \/ AttachedBy(p, c) \/ RetrievedBy(p, c)
                 \/ Expiring(c)
      ]_vars

\* a payload has been delivered for a code whose only attachment is not yet
\* acknowledged: the GET was answered 200 while the PUT is about to answer 204
C20_Witness ==
    \E c \in Codes :
        /\ get200[c] = 1 /\ put204[c] = 0
        /\ Cardinality(Answering("PUT", c, StatusNoContent)) = 1
        /\ store[c].kind = "none"

====
